---- MODULE Spec2Model ----
(***************************************************************************)
(* A model of the OnlyKey host client (src/onlykey/client.py): the report  *)
(* encoder (send_message), the chunked senders (send_large_message,        *)
(* send_large_message2, send_large_message3), the report readers           *)
(* (read_bytes, read_string), the challenge derivation (get_button) and    *)
(* the confirming operations (sign, getpub, decrypt).                      *)
(*                                                                         *)
(* Conventions.  A Python str of bytes and a list of ints are both a       *)
(* sequence of numbers 0..255.  None, and every other falsy argument, is   *)
(* the number 0 (the code only ever tests these arguments for truth).      *)
(* The transport is the log `written` of what _hid.write was handed, and   *)
(* the queue `devq` of the reports _hid.read has still to return.           *)
(***************************************************************************)
EXTENDS Integers, Sequences, FiniteSets, TLC

VARIABLES
    op,             \* the method of OnlyKey that is running ("none" before a call)
    pc,             \* its position
    payload,        \* the payload argument (SignatureHash, ct, key bytes, value)
    msg,            \* the msg argument: a Message value, 0 for None
    slot_id,        \* the slot_id argument, 0 for None
    message_field,  \* the message_field argument: a MessageField value, 0 for None
    key_type,       \* the key_type argument
    chunks,         \* the list `chunks` of a chunked sender
    idx,            \* how many chunks of `chunks` the for loop has sent
    written,        \* every list handed to _hid.write, in order
    raised,         \* the exception that ended the call, "" for none
    digest,         \* hashlib.sha256(payload).digest()
    buttons,        \* (b1, b2, b3), <<>> before they are computed
    shown,          \* whether the three digits have been printed
    confirmed,      \* whether raw_input() has returned
    devq,           \* the reports buffered on the transport, oldest first
    resp,           \* the answer the device has still to send
    out,            \* the list `out` of read_bytes: what the last _hid.read returned
    rd,             \* parity of the number of _hid.read calls so far
    nreads,         \* _hid.read calls counted for the call (sign, getpub: after the first part)
    parts,          \* ok_sign1..8 / ok_pubkey1..8 / ok_decrypted, as far as assigned
    attempts,       \* iterations made by the running for loop
    result,         \* the value the call returned, <<>> before it returns
    slotnum,        \* the module-level global `slotnum`, -1 until slot() assigns it
    hid_open,       \* whether self._hid is open
    tries,          \* the local `tries` of __init__
    opens,          \* the outcome of each _connect call so far
    connect,        \* the argument `connect` of __init__
    slot_number,    \* the slot_number a setslot or wipeslot call was given, 0 if none
    inst,           \* the OnlyKey instance the running method was called on
    selected        \* per instance, the slot last given to its slot(), -1 if none

vars == <<op, pc, payload, msg, slot_id, message_field, key_type, chunks, idx,
          written, raised, digest, buttons, shown, confirmed, devq, resp, out,
          rd, nreads, parts, attempts, result, slotnum, hid_open, tries, opens,
          connect, slot_number, inst, selected>>

sendVars == <<payload, msg, slot_id, message_field, key_type, chunks, idx>>
chalVars == <<digest, buttons, shown, confirmed>>
readVars == <<devq, resp, out, rd, nreads, parts, attempts>>
sessVars == <<hid_open, tries, opens, connect, slot_number, inst, selected>>

\* the OnlyKey instances of the process
Instances == {"A", "B"}

\* `tries = 6`: one attempt more than the retry budget
ConnectTriesSix == 5 + 1

\* `tries = 5`
CONNECT_TRIES == 5

\* a session whose constructor has connected at the first attempt
Connected ==
    /\ hid_open = TRUE /\ tries = CONNECT_TRIES /\ opens = <<"ok">> /\ connect = TRUE
    /\ slot_number = 0
    /\ inst = "A" /\ selected = [i \in Instances |-> -1]

-----------------------------------------------------------------------------
(* Program constants *)

MAX_INPUT_REPORT_SIZE == 64
MAX_LARGE_PAYLOAD_SIZE == 58
MESSAGE_HEADER == <<255, 255, 255, 255>>

OKGETLABELS == 229
OKSETSLOT == 230
OKWIPESLOT == 231
OKGETPUBKEY == 236
OKSIGNCHALLENGE == 237
OKSETPRIV == 239
OKDECRYPT == 240

LABEL == 1
PASSWORD == 5

(* Bounds of the model *)

\* the longest payload handed to a sender
MaxPayloadLen == 130
\* the first bytes of the payloads tried
Seeds == {1, 200}

-----------------------------------------------------------------------------
(* Helpers: Python's list operations *)

Min(a, b) == IF a < b THEN a ELSE b

\* [0] * n
Zeros(n) == [i \in 1..n |-> 0]

\* p[x:y] for 0 <= x (Python's slice: clipped to the length of p)
Slice(p, x, y) == SubSeq(p, x + 1, Min(y, Len(p)))

\* len(xrange(0, n, step))
RangeLen(n, step) == (n + step - 1) \div step

\* a payload of the given length whose bytes differ from place to place
Bytes(seed, len) == [i \in 1..len |-> (seed + i - 1) % 256]

-----------------------------------------------------------------------------
(* send_message: the report handed to _hid.write *)

\* the while loop that pads raw_bytes with 0s up to MAX_INPUT_REPORT_SIZE
PadReport(raw_bytes) ==
    IF Len(raw_bytes) < MAX_INPUT_REPORT_SIZE
    THEN raw_bytes \o Zeros(MAX_INPUT_REPORT_SIZE - Len(raw_bytes))
    ELSE raw_bytes

\* send_message with the slot id and the field code appended in the wrong order
send_message_swapped(p, m, s, f) ==
    LET r0 == MESSAGE_HEADER
        r1 == IF m # 0 THEN Append(r0, m) ELSE r0
        r2 == IF f # 0 THEN Append(r1, f) ELSE r1
        r3 == IF s # 0 THEN Append(r2, s) ELSE r2
        r4 == IF Len(p) > 0 THEN r3 \o p ELSE r3
    IN  PadReport(r4)

send_message(p, m, s, f) ==
    LET r0 == MESSAGE_HEADER
        r1 == IF m # 0 THEN Append(r0, m) ELSE r0
        r2 == IF s # 0 THEN Append(r1, s) ELSE r1
        r3 == IF f # 0 THEN Append(r2, f) ELSE r2
        r4 == IF Len(p) > 0 THEN r3 \o p ELSE r3
    IN  PadReport(r4)

-----------------------------------------------------------------------------
(* The chunked senders *)

\* Chunks with slices one byte too short: the last byte of every full chunk is lost
ChunksShort(p, width, stride) ==
    [k \in 1..RangeLen(Len(p), stride) |->
        Slice(p, (k - 1) * stride, (k - 1) * stride + width - 1)]

\* [payload[x:x+width] for x in xrange(0, len(payload), stride)]
Chunks(p, width, stride) ==
    [k \in 1..RangeLen(Len(p), stride) |->
        Slice(p, (k - 1) * stride, (k - 1) * stride + width)]

\* current_payload of send_large_message for one chunk
LargePayload(chunk) ==
    (IF Len(chunk) < 58 THEN <<Len(chunk)>> ELSE <<255>>) \o chunk

\* current_payload of send_large_message2 for one chunk
LargePayload2(s, chunk) ==
    (IF Len(chunk) < 57 THEN <<s, Len(chunk)>> ELSE <<s, 255>>) \o chunk

\* current_payload of send_large_message3 for one chunk
LargePayload3(s, kt, chunk) == <<s, kt>> \o chunk

ChunkedOps == {"send_large_message", "send_large_message2", "send_large_message3"}

ChunkPayload(o, s, kt, chunk) ==
    CASE o = "send_large_message"  -> LargePayload(chunk)
      [] o = "send_large_message2" -> LargePayload2(s, chunk)
      [] o = "send_large_message3" -> LargePayload3(s, kt, chunk)

ChunksOf(o, p) ==
    IF o = "send_large_message"
    THEN Chunks(p, MAX_LARGE_PAYLOAD_SIZE, 58)
    ELSE Chunks(p, MAX_LARGE_PAYLOAD_SIZE - 1, 57)

-----------------------------------------------------------------------------
(* The state before any call *)

Idle ==
    /\ op = "none" /\ pc = "idle"
    /\ payload = <<>> /\ msg = 0 /\ slot_id = 0 /\ message_field = 0
    /\ key_type = 0 /\ chunks = <<>> /\ idx = 0
    /\ written = <<>> /\ raised = ""
    /\ digest = <<>> /\ buttons = <<>> /\ shown = FALSE /\ confirmed = FALSE
    /\ devq = <<>> /\ resp = <<>> /\ out = <<>> /\ rd = 0 /\ nreads = 0
    /\ parts = <<>> /\ attempts = 0
    /\ result = <<>> /\ slotnum = -1
    /\ Connected

\* the arguments the senders are called with
Payloads == {Bytes(seed, len) : seed \in Seeds, len \in 0..MaxPayloadLen}
Msgs == {0, OKSETSLOT}
SlotIds == {0, 3, 16}
Fields == {0, LABEL}
KeyTypes == {1, 2}

-----------------------------------------------------------------------------
(* Calls of the senders *)

\* send_message(payload, msg, slot_id, message_field), called directly
SendMessageCall ==
    /\ pc = "idle"
    /\ \E p \in Payloads, m \in Msgs, s \in SlotIds, f \in Fields :
        /\ payload' = p /\ msg' = m /\ slot_id' = s /\ message_field' = f
        /\ written' = Append(written, send_message(p, m, s, f))
    /\ op' = "send_message" /\ pc' = "done"
    /\ UNCHANGED <<key_type, chunks, idx, raised, result, slotnum>>
    /\ UNCHANGED chalVars /\ UNCHANGED readVars
    /\ UNCHANGED sessVars

\* set_ecc_key(key_type, slot, key) and set_rsa_key(key_type, slot, key)
SetKeyCall ==
    /\ pc = "idle"
    /\ \E o \in {"set_ecc_key", "set_rsa_key"}, kt \in KeyTypes,
          s \in SlotIds, key \in Payloads :
        /\ op' = o /\ key_type' = kt /\ slot_id' = s /\ payload' = key
        /\ written' = Append(written,
                             send_message(<<kt, s>> \o key, OKSETPRIV, 0, 0))
    /\ msg' = OKSETPRIV /\ pc' = "done"
    /\ UNCHANGED <<message_field, chunks, idx, raised, result, slotnum>>
    /\ UNCHANGED chalVars /\ UNCHANGED readVars
    /\ UNCHANGED sessVars

\* send_large_message*(payload, msg, slot_id, key_type): up to the for loop
LargeCall ==
    /\ pc = "idle"
    /\ \E o \in ChunkedOps, p \in Payloads, m \in Msgs, s \in SlotIds,
          kt \in KeyTypes :
        /\ op' = o /\ payload' = p /\ msg' = m /\ slot_id' = s
        /\ key_type' = IF o = "send_large_message3" THEN kt ELSE 0
        /\ IF m = 0
           THEN /\ raised' = "Missing msg" /\ pc' = "done"
                /\ chunks' = <<>>
           ELSE /\ raised' = "" /\ pc' = "chunks"
                /\ chunks' = ChunksOf(o, p)
    /\ idx' = 0
    /\ UNCHANGED <<message_field, written, result, slotnum>>
    /\ UNCHANGED chalVars /\ UNCHANGED readVars
    /\ UNCHANGED sessVars

\* one iteration of `for chunk in chunks` that writes its report a second time
LargeStepRetry ==
    /\ pc = "chunks" /\ op \in ChunkedOps
    /\ idx < Len(chunks)
    /\ LET report == send_message(ChunkPayload(op, slot_id, key_type,
                                               chunks[idx + 1]), msg, 0, 0)
       IN  written' = written \o <<report, report>>
    /\ idx' = idx + 1
    /\ UNCHANGED <<op, pc, payload, msg, slot_id, message_field, key_type,
                   chunks, raised, result, slotnum>>
    /\ UNCHANGED chalVars /\ UNCHANGED readVars
    /\ UNCHANGED sessVars

\* one iteration of `for chunk in chunks`
LargeStep ==
    /\ pc = "chunks" /\ op \in ChunkedOps
    /\ idx < Len(chunks)
    /\ written' = Append(written,
            send_message(ChunkPayload(op, slot_id, key_type, chunks[idx + 1]),
                         msg, 0, 0))
    /\ idx' = idx + 1
    /\ UNCHANGED <<op, pc, payload, msg, slot_id, message_field, key_type,
                   chunks, raised, result, slotnum>>
    /\ UNCHANGED chalVars /\ UNCHANGED readVars
    /\ UNCHANGED sessVars

\* the loop is over: return
LargeReturn ==
    /\ pc = "chunks" /\ op \in ChunkedOps
    /\ idx = Len(chunks)
    /\ pc' = "done"
    /\ UNCHANGED <<op, written, raised, result, slotnum>>
    /\ UNCHANGED sendVars /\ UNCHANGED chalVars /\ UNCHANGED readVars
    /\ UNCHANGED sessVars

NextSend ==
    \/ SendMessageCall
    \/ SetKeyCall
    \/ LargeCall
    \/ LargeStep
    \/ LargeReturn

SpecSend == Idle /\ [][NextSend]_vars

-----------------------------------------------------------------------------
(* What a receiver reads out of a report *)

\* the number of bytes before the payload in a report of send_message
HeaderLen(m, s, f) ==
    Len(MESSAGE_HEADER) + (IF m # 0 THEN 1 ELSE 0) + (IF s # 0 THEN 1 ELSE 0)
                        + (IF f # 0 THEN 1 ELSE 0)

\* report r is  header ++ [m] ++ [s] ++ [f] ++ p ++ zeros  and 64 bytes long
IsFramed(r, p, m, s, f) ==
    LET h == HeaderLen(m, s, f)
        at_s == 5 + (IF m # 0 THEN 1 ELSE 0)
        at_f == at_s + (IF s # 0 THEN 1 ELSE 0)
    IN  /\ Len(r) = 64
        /\ \A i \in 1..4 : r[i] = 255
        /\ m # 0 => r[5] = m
        /\ s # 0 => r[at_s] = s
        /\ f # 0 => r[at_f] = f
        /\ \A i \in 1..Len(p) : r[h + i] = p[i]
        /\ \A i \in (h + Len(p) + 1)..64 : r[i] = 0

CeilDiv(n, d) == IF n % d = 0 THEN n \div d ELSE (n \div d) + 1

\* where the marker byte of a chunk report is, and how long a full chunk is
MarkerAt(o) == IF o = "send_large_message" THEN 6 ELSE 7
FullChunk(o) == IF o = "send_large_message" THEN 58 ELSE 57

Marker(o, r) == r[MarkerAt(o)]

\* the chunk bytes a receiver takes from a report: 255 announces a full chunk,
\* any other marker is the chunk's length
ChunkBytes(o, r) ==
    LET n == IF Marker(o, r) = 255 THEN FullChunk(o) ELSE Marker(o, r)
    IN  SubSeq(r, MarkerAt(o) + 1, MarkerAt(o) + n)

RECURSIVE Reassemble(_, _)
Reassemble(o, rs) ==
    IF rs = <<>> THEN <<>>
    ELSE ChunkBytes(o, Head(rs)) \o Reassemble(o, Tail(rs))

MarkedOps == {"send_large_message", "send_large_message2"}

\* a marked chunked send has written all its reports and returned
MarkedDone == pc = "done" /\ op \in MarkedOps /\ raised = ""

-----------------------------------------------------------------------------
(* Claims about the senders, under SpecSend *)

\* C1: no report of a length other than 64 bytes is ever written: every list
\* handed to _hid.write is exactly 64 long, and a call whose header, fields and
\* payload exceed 64 bytes raises a payload-too-large error and writes nothing.
C1_OnlyFullReports ==
    /\ \A i \in 1..Len(written) : Len(written[i]) = MAX_INPUT_REPORT_SIZE
    /\ (/\ op = "send_message" /\ pc = "done"
        /\ HeaderLen(msg, slot_id, message_field) + Len(payload) > 64)
       => (raised = "PayloadTooLarge" /\ written = <<>>)

\* C2 as stated: for every payload of length <= 58 and every combination of
\* message kind, slot id and field code, send_message writes the 64-byte report
\* header ++ [msg] ++ [slot id] ++ [field] ++ payload ++ zeros.
C2_FramedUpTo58 ==
    (op = "send_message" /\ pc = "done" /\ Len(payload) <= 58)
    => IsFramed(written[1], payload, msg, slot_id, message_field)

\* C2 as amended: for every payload and every combination of message kind, slot
\* id and field code whose header, fields and payload together take at most 64
\* bytes, send_message writes the 64-byte report
\* header ++ [msg] ++ [slot id] ++ [field] ++ payload ++ zeros.
C2_FramedWhenFits ==
    (/\ op = "send_message" /\ pc = "done"
     /\ HeaderLen(msg, slot_id, message_field) + Len(payload) <= 64)
    => /\ Len(written) = 1
       /\ IsFramed(written[1], payload, msg, slot_id, message_field)

\* a report that is filled to its last byte: all three fields and 57 payload bytes
C2_Witness ==
    /\ op = "send_message" /\ pc = "done"
    /\ msg # 0 /\ slot_id # 0 /\ message_field # 0 /\ Len(payload) = 57
    /\ Len(written) = 1

\* C3: chunking is lossless and order-preserving: send_large_message writes
\* ceil(L/58) reports and send_large_message2 ceil(L/57) reports, and the chunk
\* bytes of the reports, concatenated in write order, are the payload.
C3_ChunkingLossless ==
    MarkedDone
    => /\ Len(written) = CeilDiv(Len(payload), FullChunk(op))
       /\ Reassemble(op, written) = payload
       /\ op = "send_large_message2"
          => \A i \in 1..Len(written) : written[i][6] = slot_id

\* a payload of three chunks, the last one partial, has been sent
C3_Witness ==
    /\ MarkedDone /\ Len(written) = 3
    /\ Len(payload) > 2 * FullChunk(op) /\ Len(payload) < 3 * FullChunk(op)

\* C4: for every non-empty payload the marker byte of a report is 255 exactly
\* when at least one more chunk follows it, and the final report carries the
\* length of its chunk, also when the payload is a multiple of the chunk size.
C4_MarkerIffMoreFollows ==
    (MarkedDone /\ payload # <<>>)
    => /\ \A i \in 1..Len(written) :
            (Marker(op, written[i]) = 255) <=> (i < Len(written))
       /\ Marker(op, written[Len(written)]) = Len(chunks[Len(chunks)])

-----------------------------------------------------------------------------
(* The challenge digits of sign and decrypt *)

\* get_button of sign with the test for small bytes left out
get_button_no_floor(ibyte) == (ibyte % 5) + 1

\* get_button, as sign defines it
sign_get_button(ibyte) == IF ibyte < 6 THEN 1 ELSE (ibyte % 5) + 1

\* get_button, as decrypt defines it
decrypt_get_button(ibyte) == IF ibyte < 6 THEN 1 ELSE (ibyte % 5) + 1

\* b1, b2, b3 = get_button(d[0]), get_button(d[15]), get_button(d[31])
sign_buttons(d) ==
    <<sign_get_button(d[1]), sign_get_button(d[16]), sign_get_button(d[32])>>

decrypt_buttons(d) ==
    <<decrypt_get_button(d[1]), decrypt_get_button(d[16]),
      decrypt_get_button(d[32])>>

\* The digest is hashlib's: any 32 bytes.  The three bytes the digits come from
\* take every value (the first) or the values around the two cases of
\* get_button; the other 29 differ from place to place.
ByteSamples == {0, 5, 6, 7, 10, 255}

Digest(a, b, c) ==
    [i \in 1..32 |-> CASE i = 1  -> a
                       [] i = 16 -> b
                       [] i = 32 -> c
                       [] OTHER  -> 100 + i]

Digests == {Digest(a, b, c) : a \in 0..255, b \in ByteSamples, c \in ByteSamples}

InitChallenge ==
    /\ op = "none" /\ pc = "idle"
    /\ payload = <<>> /\ msg = 0 /\ slot_id = 0 /\ message_field = 0
    /\ key_type = 0 /\ chunks = <<>> /\ idx = 0
    /\ written = <<>> /\ raised = ""
    /\ digest \in Digests
    /\ buttons = <<>> /\ shown = FALSE /\ confirmed = FALSE
    /\ devq = <<>> /\ resp = <<>> /\ out = <<>> /\ rd = 0 /\ nreads = 0
    /\ parts = <<>> /\ attempts = 0
    /\ result = <<>> /\ slotnum = -1
    /\ Connected

\* sign: the digits it derives from the digest of SignatureHash
SignChallenge ==
    /\ pc = "idle"
    /\ op' = "sign" /\ pc' = "challenge"
    /\ buttons' = sign_buttons(digest)
    /\ UNCHANGED <<written, raised, result, slotnum, digest, shown, confirmed>>
    /\ UNCHANGED sendVars /\ UNCHANGED readVars
    /\ UNCHANGED sessVars

\* decrypt: the digits it derives from the digest of ct
DecryptChallenge ==
    /\ pc = "idle"
    /\ op' = "decrypt" /\ pc' = "challenge"
    /\ buttons' = decrypt_buttons(digest)
    /\ UNCHANGED <<written, raised, result, slotnum, digest, shown, confirmed>>
    /\ UNCHANGED sendVars /\ UNCHANGED readVars
    /\ UNCHANGED sessVars

NextChallenge ==
    \/ SignChallenge
    \/ DecryptChallenge

SpecChallenge == InitChallenge /\ [][NextChallenge]_vars

\* the digit the specification gives for a digest byte
SpecDigit(d) == IF d < 6 THEN 1 ELSE (d % 5) + 1

\* C5: each of the three digits is 1 for a digest byte below 6 and
\* (byte mod 5) + 1 otherwise, the bytes are those at offsets 0, 15 and 31 of the
\* digest, each digit is in 1..5, and sign and decrypt derive the same triple
\* from the same digest.
C5_ChallengeDigits ==
    pc = "challenge"
    => /\ Len(buttons) = 3
       /\ \A k \in 1..3 : buttons[k] \in 1..5
       /\ buttons[1] = SpecDigit(digest[0 + 1])
       /\ buttons[2] = SpecDigit(digest[15 + 1])
       /\ buttons[3] = SpecDigit(digest[31 + 1])
       /\ buttons = sign_buttons(digest)
       /\ buttons = decrypt_buttons(digest)

\* decrypt has derived the digits 1, 3, 1 from the digest bytes 3, 7 and 10
C5_Witness ==
    /\ pc = "challenge" /\ op = "decrypt"
    /\ digest[1] = 3 /\ digest[16] = 7 /\ digest[32] = 10
    /\ buttons = <<1, 3, 1>>

-----------------------------------------------------------------------------
(* The transport's read side and the device *)

\* how many times a `for _ in xrange(10)` loop reads
RETRIES == 10
\* ok_sign1..ok_sign8, ok_pubkey1..ok_pubkey8
PARTS == 8

(* Bounds of the device *)

\* the most full reports the device sends before a run of short ones
MaxFull == 8
\* the most full reports it sends after that run
MaxTail == 1
\* the length of a short report
ShortLen == 10
\* the most stale reports buffered on the transport before a call
MaxStale == 2

\* a report of len bytes, each of them tag
Report(len, tag) == [i \in 1..len |-> tag]

\* an answer: f1 full reports, s short ones, f2 full ones; report k holds bytes k
Answer(f1, s, f2) ==
    [k \in 1..(f1 + s + f2) |->
        IF k > f1 /\ k <= f1 + s THEN Report(ShortLen, k) ELSE Report(64, k)]

Answers == {Answer(f1, s, f2) :
                f1 \in 0..MaxFull, s \in {0, 1, RETRIES}, f2 \in 0..MaxTail}

\* stale reports left on the transport by an earlier exchange
Stale(n) == [k \in 1..n |-> Report(64, 200 + k)]

\* self._hid.read(64, timeout_ms): the oldest buffered report, [] on a timeout
HidRead(q) == IF q = <<>> THEN <<>> ELSE Head(q)
AfterRead(q) == IF q = <<>> THEN <<>> ELSE Tail(q)

\* read_bytes(n, to_str): the report as read, as a list or (to_str) as a str
read_bytes(q) == HidRead(q)

\* the bytes of a report up to its last non-zero byte
RECURSIVE StripTrailingZeros(_)
StripTrailingZeros(r) ==
    IF r = <<>> THEN <<>>
    ELSE IF r[Len(r)] = 0 THEN StripTrailingZeros(SubSeq(r, 1, Len(r) - 1))
    ELSE r

\* read_string that cuts the report at its first zero byte, as a C string ends
read_string_cut(q) ==
    LET r == read_bytes(q)
        z == {i \in 1..Len(r) : r[i] = 0}
    IN  IF z = {} THEN r
        ELSE SubSeq(r, 1, (CHOOSE i \in z : \A j \in z : i <= j) - 1)

\* read_string(timeout_ms): ''.join([chr(item) for item in read_bytes(64) if item != 0])
read_string(q) == SelectSeq(read_bytes(q), LAMBDA item : item # 0)

-----------------------------------------------------------------------------
(* sign, getpub and decrypt *)

ConfirmingOps == {"sign", "decrypt"}
OpSlots == {1, 2}
HashLens == {32, 64}
OpDigests == {Digest(3, 7, 10), Digest(255, 6, 0)}

\* ok_sign1 + ... + ok_sign8
RECURSIVE Concat(_)
Concat(ps) == IF ps = <<>> THEN <<>> ELSE Head(ps) \o Concat(Tail(ps))

\* `if not ok_sign2: raise` and the same test of ok_pubkey2
PartsMissing(ps) == ps[2] = <<>>

InitOp ==
    /\ op = "none" /\ pc = "idle"
    /\ payload = <<>> /\ msg = 0 /\ slot_id = 0 /\ message_field = 0
    /\ key_type = 0 /\ chunks = <<>> /\ idx = 0
    /\ written = <<>> /\ raised = ""
    /\ digest = <<>> /\ buttons = <<>> /\ shown = FALSE /\ confirmed = FALSE
    /\ \E n \in 0..MaxStale : devq = Stale(n)
    /\ resp \in Answers
    /\ out = <<>> /\ rd = 0 /\ nreads = 0 /\ parts = <<>> /\ attempts = 0
    /\ result = <<>> /\ slotnum = -1
    /\ Connected

\* slot(slot): sets the global slotnum (-1: not yet set)
SlotCall ==
    /\ pc = "idle"
    /\ \E s \in OpSlots :
        /\ slotnum' = s
        /\ selected' = [selected EXCEPT ![inst] = s]
    /\ UNCHANGED <<op, pc, written, raised, result, hid_open, tries, opens, connect,
                   slot_number, inst>>
    /\ UNCHANGED sendVars /\ UNCHANGED chalVars /\ UNCHANGED readVars

\* sign(SignatureHash), getpub() or decrypt(ct) is called
OpCall ==
    /\ pc = "idle"
    /\ \E o \in {"sign", "getpub", "decrypt"}, n \in HashLens :
        /\ op' = o
        /\ payload' = IF o = "getpub" THEN <<>> ELSE Bytes(1, n)
    /\ pc' = "drain"
    /\ UNCHANGED <<msg, slot_id, message_field, key_type, chunks, idx,
                   written, raised, result, slotnum>>
    /\ UNCHANGED chalVars /\ UNCHANGED readVars
    /\ UNCHANGED sessVars

\* self.read_string(timeout_ms=100); empty = 'a'; while not empty: (never entered)
Drain ==
    /\ pc = "drain"
    /\ out' = HidRead(devq) /\ devq' = AfterRead(devq) /\ rd' = 1 - rd
    /\ pc' = "request"
    /\ UNCHANGED <<op, written, raised, result, slotnum, resp, nreads, parts,
                   attempts>>
    /\ UNCHANGED sendVars /\ UNCHANGED chalVars
    /\ UNCHANGED sessVars

\* ChallengeAndSend printing the three digits before send_large_message2 is called
ChallengeShowAndSend ==
    /\ pc = "request" /\ op \in ConfirmingOps
    /\ \E d \in OpDigests :
        /\ digest' = d
        /\ buttons' = IF op = "sign" THEN sign_buttons(d) ELSE decrypt_buttons(d)
    /\ shown' = TRUE
    /\ IF slotnum = -1
       THEN /\ raised' = "NameError" /\ pc' = "failed"
            /\ UNCHANGED <<msg, slot_id, chunks>>
       ELSE /\ msg' = (IF op = "sign" THEN OKSIGNCHALLENGE ELSE OKDECRYPT)
            /\ slot_id' = slotnum
            /\ chunks' = ChunksOf("send_large_message2", payload)
            /\ pc' = "chunks"
            /\ UNCHANGED raised
    /\ idx' = 0
    /\ UNCHANGED <<op, payload, message_field, key_type, written, result,
                   slotnum, confirmed>>
    /\ UNCHANGED readVars
    /\ UNCHANGED sessVars

\* sign and decrypt: the digest, the digits, and send_large_message2 up to its loop
ChallengeAndSend ==
    /\ pc = "request" /\ op \in ConfirmingOps
    /\ \E d \in OpDigests :
        /\ digest' = d
        /\ buttons' = IF op = "sign" THEN sign_buttons(d) ELSE decrypt_buttons(d)
    /\ IF slotnum = -1
       THEN /\ raised' = "NameError" /\ pc' = "failed"
            /\ UNCHANGED <<msg, slot_id, chunks>>
       ELSE /\ msg' = (IF op = "sign" THEN OKSIGNCHALLENGE ELSE OKDECRYPT)
            /\ slot_id' = slotnum
            /\ chunks' = ChunksOf("send_large_message2", payload)
            /\ pc' = "chunks"
            /\ UNCHANGED raised
    /\ idx' = 0
    /\ UNCHANGED <<op, payload, message_field, key_type, written, result,
                   slotnum, shown, confirmed>>
    /\ UNCHANGED readVars
    /\ UNCHANGED sessVars

\* one iteration of the loop of send_large_message2 within sign or decrypt
OpSendStep ==
    /\ pc = "chunks" /\ op \in ConfirmingOps
    /\ idx < Len(chunks)
    /\ written' = Append(written,
            send_message(LargePayload2(slot_id, chunks[idx + 1]), msg, 0, 0))
    /\ idx' = idx + 1
    /\ UNCHANGED <<op, pc, payload, msg, slot_id, message_field, key_type,
                   chunks, raised, result, slotnum>>
    /\ UNCHANGED chalVars /\ UNCHANGED readVars
    /\ UNCHANGED sessVars

\* ShowDigits going on to the reads without the call of raw_input()
ShowDigitsNoWait ==
    /\ pc = "chunks" /\ op \in ConfirmingOps
    /\ idx = Len(chunks)
    /\ shown' = TRUE /\ pc' = "poll"
    /\ UNCHANGED <<op, written, raised, result, slotnum, digest, buttons,
                   confirmed>>
    /\ UNCHANGED sendVars /\ UNCHANGED readVars
    /\ UNCHANGED sessVars

\* send_large_message2 has returned: print the three digits
ShowDigits ==
    /\ pc = "chunks" /\ op \in ConfirmingOps
    /\ idx = Len(chunks)
    /\ shown' = TRUE /\ pc' = "input"
    /\ UNCHANGED <<op, written, raised, result, slotnum, digest, buttons,
                   confirmed>>
    /\ UNCHANGED sendVars /\ UNCHANGED readVars
    /\ UNCHANGED sessVars

\* raw_input() returns: the operator has pressed ENTER
Input ==
    /\ pc = "input"
    /\ confirmed' = TRUE /\ pc' = "poll"
    /\ UNCHANGED <<op, written, raised, result, slotnum, digest, buttons, shown>>
    /\ UNCHANGED sendVars /\ UNCHANGED readVars
    /\ UNCHANGED sessVars

\* raw_input() raises EOFError: standard input is closed
InputEOF ==
    /\ pc = "input"
    /\ raised' = "EOFError" /\ pc' = "failed"
    /\ UNCHANGED <<op, written, result, slotnum>>
    /\ UNCHANGED sendVars /\ UNCHANGED chalVars /\ UNCHANGED readVars
    /\ UNCHANGED sessVars

\* getpub: send_message(msg=OKGETPUBKEY, payload=chr(slotnum))
GetpubRequest ==
    /\ pc = "request" /\ op = "getpub"
    /\ IF slotnum = -1
       THEN /\ raised' = "NameError" /\ pc' = "failed"
            /\ UNCHANGED <<msg, written>>
       ELSE /\ msg' = OKGETPUBKEY
            /\ written' = Append(written,
                                 send_message(<<slotnum>>, OKGETPUBKEY, 0, 0))
            /\ pc' = "poll"
            /\ UNCHANGED raised
    /\ UNCHANGED <<op, payload, slot_id, message_field, key_type, chunks, idx,
                   result, slotnum>>
    /\ UNCHANGED chalVars /\ UNCHANGED readVars
    /\ UNCHANGED sessVars

\* one iteration of `while ok_sign1 == '': time.sleep(0.5); ok_sign1 = read_bytes`
\* (ok_pubkey1, ok_decrypted); decrypt returns what it read
Poll ==
    /\ pc = "poll"
    /\ LET r == read_bytes(devq)
       IN  /\ out' = r /\ devq' = AfterRead(devq) /\ rd' = 1 - rd
           /\ IF r = <<>>
              THEN UNCHANGED <<pc, parts, result>>
              ELSE IF op = "decrypt"
                   THEN /\ result' = r /\ pc' = "done"
                        /\ UNCHANGED parts
                   ELSE /\ parts' = <<r>> /\ pc' = "parts"
                        /\ UNCHANGED result
    /\ UNCHANGED <<op, written, raised, slotnum, resp, nreads, attempts>>
    /\ UNCHANGED sendVars /\ UNCHANGED chalVars
    /\ UNCHANGED sessVars

\* ReadPart without `if len(ok_sign2) == 64: break`: every part is read 10 times
ReadPartNoBreak ==
    /\ pc = "parts"
    /\ LET r    == read_bytes(devq)
           over == attempts + 1 = RETRIES
           ps   == IF attempts = 0 THEN Append(parts, r)
                   ELSE [parts EXCEPT ![Len(parts)] = r]
       IN  /\ out' = r /\ devq' = AfterRead(devq) /\ rd' = 1 - rd
           /\ nreads' = nreads + 1
           /\ parts' = ps
           /\ attempts' = IF over THEN 0 ELSE attempts + 1
           /\ pc' = IF over /\ Len(ps) = PARTS THEN "check" ELSE "parts"
    /\ UNCHANGED <<op, written, raised, result, slotnum, resp>>
    /\ UNCHANGED sendVars /\ UNCHANGED chalVars
    /\ UNCHANGED sessVars

\* one iteration of `for _ in xrange(10): ok_signK = read_bytes; if len == 64: break`
\* for K = Len(parts) + 1 (attempts = 0) or K = Len(parts) (attempts > 0)
ReadPart ==
    /\ pc = "parts"
    /\ LET r    == read_bytes(devq)
           over == Len(r) = 64 \/ attempts + 1 = RETRIES
           ps   == IF attempts = 0 THEN Append(parts, r)
                   ELSE [parts EXCEPT ![Len(parts)] = r]
       IN  /\ out' = r /\ devq' = AfterRead(devq) /\ rd' = 1 - rd
           /\ nreads' = nreads + 1
           /\ parts' = ps
           /\ attempts' = IF over THEN 0 ELSE attempts + 1
           /\ pc' = IF over /\ Len(ps) = PARTS THEN "check" ELSE "parts"
    /\ UNCHANGED <<op, written, raised, result, slotnum, resp>>
    /\ UNCHANGED sendVars /\ UNCHANGED chalVars
    /\ UNCHANGED sessVars

\* `if not ok_sign2: raise Exception(...)`, else return the concatenation
Finish ==
    /\ pc = "check"
    /\ IF PartsMissing(parts)
       THEN /\ raised' = "failed to read" /\ pc' = "failed"
            /\ UNCHANGED result
       ELSE /\ result' = Concat(parts) /\ pc' = "done"
            /\ UNCHANGED raised
    /\ UNCHANGED <<op, written, slotnum>>
    /\ UNCHANGED sendVars /\ UNCHANGED chalVars /\ UNCHANGED readVars
    /\ UNCHANGED sessVars

\* the request is on the wire
RequestSent == pc \in {"input", "poll", "parts", "labels"}

\* the device answers: the reports of its answer reach the transport's buffer
DeviceSend ==
    /\ RequestSent
    /\ resp # <<>>
    /\ devq' = devq \o resp /\ resp' = <<>>
    /\ UNCHANGED <<op, pc, written, raised, result, slotnum, out, rd, nreads,
                   parts, attempts>>
    /\ UNCHANGED sendVars /\ UNCHANGED chalVars
    /\ UNCHANGED sessVars

HostStep ==
    \/ SlotCall
    \/ OpCall
    \/ Drain
    \/ ChallengeAndSend
    \/ OpSendStep
    \/ ShowDigits
    \/ Input
    \/ InputEOF
    \/ GetpubRequest
    \/ Poll
    \/ ReadPart
    \/ Finish

NextOp == HostStep \/ DeviceSend

SpecOp == InitOp /\ [][NextOp]_vars

\* the host program runs on; nothing obliges the device to answer
FairSpecOp == SpecOp /\ WF_vars(HostStep)

-----------------------------------------------------------------------------
(* Claims about sign, getpub and decrypt, under SpecOp *)

AssembledOps == {"sign", "getpub"}

\* C6: in sign and decrypt, once a request report has been written, no step
\* reads from the transport and no step returns a result unless the wait for the
\* operator's input (raw_input) has completed.
C6_NoReadBeforeInput ==
    [][ (/\ op \in ConfirmingOps
         /\ written # <<>>
         /\ idx = Len(chunks)
         /\ (rd' # rd \/ result' # result \/ pc' = "done"))
        => confirmed ]_vars

\* sign has read the first part of the answer after the operator's input
C6_Witness ==
    /\ op = "sign" /\ pc = "parts" /\ confirmed
    /\ Len(written) = 2 /\ Len(parts) = 1 /\ Len(parts[1]) = 64

\* C7: the result of sign and getpub is the concatenation, in arrival order, of
\* 8 parts each of which is a full 64-byte report or empty: a short report never
\* contributes its bytes, and 8 full reports give 512 bytes.
C7_PartsFullOrEmpty ==
    (pc = "done" /\ op \in AssembledOps)
    => /\ Len(parts) = PARTS
       /\ result = Concat(parts)
       /\ \A k \in 1..PARTS : Len(parts[k]) \in {0, 64}
       /\ Len(result) = 64 * Cardinality({k \in 1..PARTS : parts[k] # <<>>})

\* C8: sign and getpub return normally only when all 8 parts were received as
\* full 64-byte reports; with any part missing or short they raise instead.
C8_ReturnsOnlyComplete ==
    (pc = "done" /\ op \in AssembledOps)
    => \A k \in 1..PARTS : Len(parts[k]) = 64

\* a call of sign, getpub or decrypt has ended, by a return or by an exception
Ended == pc \in {"done", "failed"}

\* C9: if the device never delivers a report after the request has been sent,
\* sign, getpub and decrypt end after a bounded number of reads of the poll loop
\* for the first part, and report the failure.
C9_PollEnds ==
    (pc = "poll" /\ devq = <<>> /\ resp = <<>>) ~> Ended

-----------------------------------------------------------------------------
(* read_string *)

(* Bounds of the reports read *)

\* the longest report handed to read_string
MaxReportLen == 5
\* the bytes of those reports: the padding byte, a letter and the separator '|'
ReportBytes == {0, 65, 124}

RECURSIVE SeqsUpTo(_, _)
SeqsUpTo(S, n) ==
    IF n = 0 THEN {<<>>}
    ELSE LET shorter == SeqsUpTo(S, n - 1)
         IN  shorter \cup {Append(q, b) : q \in shorter, b \in S}

ReadReports == SeqsUpTo(ReportBytes, MaxReportLen)

InitRead ==
    /\ op = "none" /\ pc = "idle"
    /\ payload = <<>> /\ msg = 0 /\ slot_id = 0 /\ message_field = 0
    /\ key_type = 0 /\ chunks = <<>> /\ idx = 0
    /\ written = <<>> /\ raised = ""
    /\ digest = <<>> /\ buttons = <<>> /\ shown = FALSE /\ confirmed = FALSE
    /\ \E r \in ReadReports, more \in {<<>>, <<Report(64, 66)>>} :
            devq = (IF r = <<>> THEN <<>> ELSE <<r>>) \o more
    /\ resp = <<>> /\ out = <<>> /\ rd = 0 /\ nreads = 0
    /\ parts = <<>> /\ attempts = 0
    /\ result = <<>> /\ slotnum = -1
    /\ Connected

\* read_string(): one read_bytes, the zero bytes filtered out
ReadStringCall ==
    /\ pc = "idle"
    /\ op' = "read_string" /\ pc' = "done"
    /\ out' = read_bytes(devq) /\ devq' = AfterRead(devq) /\ rd' = 1 - rd
    /\ result' = read_string(devq)
    /\ UNCHANGED <<written, raised, slotnum, resp, nreads, parts, attempts>>
    /\ UNCHANGED sendVars /\ UNCHANGED chalVars
    /\ UNCHANGED sessVars

NextRead == ReadStringCall

SpecRead == InitRead /\ [][NextRead]_vars

\* result is the sequence of the non-zero bytes of r, in their order
RECURSIVE IsNonZeroBytesOf(_, _)
IsNonZeroBytesOf(res, r) ==
    IF r = <<>> THEN res = <<>>
    ELSE IF Head(r) = 0 THEN IsNonZeroBytesOf(res, Tail(r))
    ELSE res # <<>> /\ Head(res) = Head(r) /\ IsNonZeroBytesOf(Tail(res), Tail(r))

\* r has a zero byte with a non-zero byte somewhere after it
HasInnerZero(r) == \E i, j \in 1..Len(r) : i < j /\ r[i] = 0 /\ r[j] # 0

ReadStringDone == op = "read_string" /\ pc = "done"

\* C10 as stated: read_string returns the report it read with exactly the
\* trailing run of zero bytes removed; a zero byte followed by a later non-zero
\* byte is kept.
C10_StripsTrailingOnly ==
    ReadStringDone => result = StripTrailingZeros(out)

\* C10 as amended: read_string returns the non-zero bytes of the one report it
\* read, in their order: every zero byte is removed, the trailing run and the
\* zero bytes between non-zero bytes alike; for a report with no zero byte
\* before a non-zero one that is the report with its trailing zeros removed.
C10_DropsEveryZero ==
    ReadStringDone
    => /\ IsNonZeroBytesOf(result, out)
       /\ ~HasInnerZero(out) => result = StripTrailingZeros(out)
       /\ rd = 1

\* a report with a zero byte between two letters and a trailing zero was read
C10_Witness ==
    /\ ReadStringDone
    /\ out = <<65, 0, 124, 65, 0>> /\ result = <<65, 124, 65>>
    /\ devq = <<Report(64, 66)>>

-----------------------------------------------------------------------------
(* setslot, wipeslot, getlabels and getkeylabels *)

PIPE == 124
LABEL_READS == 12
KEY_LABEL_READS == 36
KEY_LABELS_ID == 107
WIPE_READS == 8

\* `if slot_number >= 10: slot_number += 6` with the test one slot too late
setslot_remap_late(s) == IF s > 10 THEN s + 6 ELSE s

\* `if slot_number >= 10: slot_number += 6` of setslot
setslot_remap(s) == IF s >= 10 THEN s + 6 ELSE s

\* the slot byte wipeslot passes to send_message: slot_number as given
wipeslot_remap(s) == s

\* str.split(sep): the pieces of str between the separators, ['']-like for ''
RECURSIVE Split(_, _)
Split(str, sep) ==
    LET at == {i \in 1..Len(str) : str[i] = sep}
    IN  IF at = {} THEN <<str>>
        ELSE LET i == CHOOSE i \in at : \A j \in at : i <= j
             IN  <<SubSeq(str, 1, i - 1)>> \o Split(SubSeq(str, i + 1, Len(str)), sep)

\* Slot(num, label): name is SLOTS_NAME[num], defined for 1..12 and 25..60
Slot(num, label) == [number |-> num, label |-> label]

\* one pass of the loop of getlabels over the string read: the exception it
\* raises ("" if none) and the Slots it appends
getlabels_pass(str) ==
    LET data == Split(str, PIPE)
    IN  IF Len(data[1]) # 1 THEN [raised |-> "TypeError", slots |-> <<>>]
        ELSE LET byte == data[1][1]
                 num == IF byte >= 16 THEN byte - 6 ELSE byte
             IN  IF 1 <= num /\ num <= 12
                 THEN IF Len(data) < 2
                      THEN [raised |-> "IndexError", slots |-> <<>>]
                      ELSE [raised |-> "", slots |-> <<Slot(num, data[2])>>]
                 ELSE [raised |-> "", slots |-> <<>>]

\* one pass of the loop of getkeylabels
getkeylabels_pass(str) ==
    LET data == Split(str, PIPE)
    IN  IF Len(data[1]) # 1 THEN [raised |-> "TypeError", slots |-> <<>>]
        ELSE LET num == data[1][1]
             IN  IF 25 <= num /\ num <= 60
                 THEN IF Len(data) < 2
                      THEN [raised |-> "IndexError", slots |-> <<>>]
                      ELSE [raised |-> "", slots |-> <<Slot(num, data[2])>>]
                 ELSE [raised |-> "", slots |-> <<>>]

\* the reads a call makes after its request
ReadsOf(o) ==
    CASE o = "getlabels" -> LABEL_READS
      [] o = "getkeylabels" -> KEY_LABEL_READS
      [] o = "wipeslot" -> WIPE_READS
      [] OTHER -> 1

(* The device's side of the label exchange *)

\* the slot bytes the device numbers its password slots and key slots with
PasswordWire == [k \in 1..12 |-> IF k >= 10 THEN k + 6 ELSE k]
KeyWire == [k \in 1..36 |-> 24 + k]

\* a label response: the slot byte, '|', the label, zeros up to 64 bytes
LabelReport(byte, label) == PadReport(<<byte, PIPE>> \o label)

\* reports a read of a label exchange may return in place of a slot's label
\* response; <<>> stands for a read that times out
OddReports ==
    { <<>>,
      LabelReport(0, <<65>>), LabelReport(13, <<65>>), LabelReport(19, <<65>>),
      LabelReport(PIPE, <<65>>), LabelReport(200, <<65>>),
      LabelReport(5, <<65, PIPE, 66>>), LabelReport(30, <<65, 0, 66>>),
      PadReport(<<3>>), PadReport(<<30>>), PadReport(<<200>>),
      PadReport(<<65, 66, PIPE, 67>>) }

\* an answer to a labels request: one response per slot byte of wires, with
\* rep in place of response number at (none if at = 0)
LabelAnswer(wires, at, rep) ==
    [k \in 1..Len(wires) |->
        IF k = at THEN rep ELSE LabelReport(wires[k], <<76, 48 + (k % 10)>>)]

LabelAnswers ==
    {LabelAnswer(w, at, rep) :
        w \in {PasswordWire, KeyWire}, at \in 0..36, rep \in OddReports}

\* the password labels of a device that holds no odd response
PlainLabels == LabelAnswer(PasswordWire, 0, <<>>)

\* the password labels a device answers once it has stored the label that the
\* OKSETSLOT report carries for the slot byte of the report
StoredLabels(report) ==
    [k \in 1..12 |->
        IF PasswordWire[k] = report[6]
        THEN LabelReport(report[6], StripTrailingZeros(SubSeq(report, 8, 64)))
        ELSE LabelReport(PasswordWire[k], <<>>)]

LogicalSlots == 1..12
SlotFields == {LABEL, PASSWORD}
SlotValues == {<<79, 75>>, <<112>>}
AckReport == PadReport(<<83, 101, 116>>)

InitLabels ==
    /\ op = "none" /\ pc = "idle"
    /\ payload = <<>> /\ msg = 0 /\ slot_id = 0 /\ message_field = 0
    /\ key_type = 0 /\ chunks = <<>> /\ idx = 0
    /\ written = <<>> /\ raised = ""
    /\ digest = <<>> /\ buttons = <<>> /\ shown = FALSE /\ confirmed = FALSE
    /\ devq = <<>> /\ resp \in LabelAnswers
    /\ out = <<>> /\ rd = 0 /\ nreads = 0
    /\ parts = <<>> /\ attempts = 0
    /\ result = <<>> /\ slotnum = -1
    /\ Connected

\* setslot(slot_number, message_field, value) up to its send_message; the
\* device acknowledges or stays silent, and stores a label it is given
SetslotCall ==
    /\ pc = "idle"
    /\ \E s \in LogicalSlots, f \in SlotFields, v \in SlotValues,
          acks \in {<<>>, <<AckReport>>} :
        LET report == send_message(v, OKSETSLOT, setslot_remap(s), f)
        IN  /\ slot_number' = s /\ slot_id' = setslot_remap(s)
            /\ message_field' = f /\ payload' = v
            /\ written' = Append(written, report)
            /\ devq' = devq \o acks
            /\ resp' = IF f = LABEL THEN StoredLabels(report) ELSE PlainLabels
    /\ msg' = OKSETSLOT /\ op' = "setslot" /\ pc' = "acks"
    /\ attempts' = 0 /\ nreads' = 0
    /\ UNCHANGED <<key_type, chunks, idx, raised, result, slotnum, out, rd, parts,
                   hid_open, tries, opens, connect, inst, selected>>
    /\ UNCHANGED chalVars

\* wipeslot(slot_number) up to its send_message
WipeslotCall ==
    /\ pc = "idle"
    /\ \E s \in LogicalSlots, acks \in {<<>>, [k \in 1..WIPE_READS |-> AckReport]} :
        /\ slot_number' = s /\ slot_id' = wipeslot_remap(s)
        /\ written' = Append(written,
                             send_message(<<>>, OKWIPESLOT, wipeslot_remap(s), 0))
        /\ devq' = devq \o acks
    /\ resp' = PlainLabels
    /\ msg' = OKWIPESLOT /\ message_field' = 0 /\ payload' = <<>>
    /\ op' = "wipeslot" /\ pc' = "acks"
    /\ attempts' = 0 /\ nreads' = 0
    /\ UNCHANGED <<key_type, chunks, idx, raised, result, slotnum, out, rd,
                   parts, hid_open, tries, opens, connect, inst, selected>>
    /\ UNCHANGED chalVars

\* `print self.read_string()`: once in setslot, eight times in wipeslot
AckRead ==
    /\ pc = "acks"
    /\ out' = read_bytes(devq) /\ devq' = AfterRead(devq) /\ rd' = 1 - rd
    /\ nreads' = nreads + 1 /\ attempts' = attempts + 1
    /\ pc' = IF attempts + 1 = ReadsOf(op) THEN "done" ELSE "acks"
    /\ UNCHANGED <<op, written, raised, result, slotnum, resp, parts>>
    /\ UNCHANGED sendVars /\ UNCHANGED chalVars /\ UNCHANGED sessVars

\* getlabels() and getkeylabels() up to their send_message, on a fresh session
\* or after a setslot
LabelsCall ==
    /\ pc = "idle" \/ (pc = "done" /\ op = "setslot")
    /\ \E o \in {"getlabels", "getkeylabels"} :
        LET s == IF o = "getkeylabels" THEN KEY_LABELS_ID ELSE 0
        IN  /\ op' = o /\ slot_id' = s
            /\ written' = Append(written, send_message(<<>>, OKGETLABELS, s, 0))
    /\ msg' = OKGETLABELS /\ message_field' = 0
    /\ result' = <<>> /\ attempts' = 0 /\ nreads' = 0
    /\ pc' = "labels"
    /\ UNCHANGED <<payload, key_type, chunks, idx, raised, slotnum, devq, resp, out,
                   rd, parts>>
    /\ UNCHANGED chalVars /\ UNCHANGED sessVars

\* one pass of `for _ in range(12)` (range(36)): read_string, split, ord, append
LabelRead ==
    /\ pc = "labels"
    /\ LET str == read_string(devq)
           pass == IF op = "getlabels" THEN getlabels_pass(str)
                   ELSE getkeylabels_pass(str)
       IN  /\ raised' = pass.raised
           /\ result' = result \o pass.slots
           /\ pc' = IF pass.raised # "" THEN "failed"
                    ELSE IF attempts + 1 = ReadsOf(op) THEN "done" ELSE "labels"
    /\ out' = read_bytes(devq) /\ devq' = AfterRead(devq) /\ rd' = 1 - rd
    /\ nreads' = nreads + 1 /\ attempts' = attempts + 1
    /\ UNCHANGED <<op, written, slotnum, resp, parts>>
    /\ UNCHANGED sendVars /\ UNCHANGED chalVars /\ UNCHANGED sessVars

NextLabels ==
    \/ SetslotCall
    \/ WipeslotCall
    \/ AckRead
    \/ LabelsCall
    \/ LabelRead
    \/ DeviceSend

SpecLabels == InitLabels /\ [][NextLabels]_vars

\* the wire slot byte of a logical short-form slot
WireOf(s) == IF s < 10 THEN s ELSE s + 6

\* r is a pipe-delimited label response: a slot byte, '|', a label
IsLabelResponse(r) == Len(r) >= 2 /\ r[2] = PIPE
LabelOf(r) == StripTrailingZeros(SubSeq(r, 3, Len(r)))

\* C11: for every logical slot s in 1..12 setslot writes the slot byte s when
\* s < 10 and s + 6 when s >= 10, and getlabels parses a label response that
\* carries that slot byte back to a Slot numbered s; the label setslot stored
\* for s comes back as the label of Slot s.
C11_SlotRoundTrip ==
    /\ (written # <<>> /\ written[1][5] = OKSETSLOT) =>
            /\ slot_number \in 1..12
            /\ written[1][6] = WireOf(slot_number)
    /\ (op = "getlabels" /\ raised = "" /\ IsLabelResponse(out)) =>
            \A s \in 1..12 :
                out[1] = WireOf(s) =>
                    /\ result # <<>>
                    /\ result[Len(result)].number = s
                    /\ (s = slot_number /\ written[1][7] = LABEL) =>
                            result[Len(result)].label = payload

C11_Witness ==
    /\ op = "getlabels" /\ pc = "labels" /\ slot_number = 10
    /\ written # <<>> /\ Len(out) >= 2 /\ result # <<>>
    /\ written[1][5] = OKSETSLOT /\ written[1][6] = 16 /\ written[1][7] = LABEL
    /\ out[1] = 16 /\ out[2] = PIPE
    /\ result[Len(result)] = Slot(10, <<79, 75>>)

\* C12: setslot and wipeslot address the same device slot: called with the
\* logical slot s, each writes one command report whose slot byte is s for
\* s in 1..9 and s + 6 for s in 10..12.
C12_SameSlotByte ==
    op \in {"setslot", "wipeslot"} =>
        /\ Len(written) = 1
        /\ written[1][5] = (IF op = "setslot" THEN OKSETSLOT ELSE OKWIPESLOT)
        /\ written[1][6] = WireOf(slot_number)

\* the Slot the claim expects of a label response, none if it is out of range
ExpectedSlots(o, r) ==
    LET byte == r[1]
        num == IF o = "getlabels" /\ byte >= 16 THEN byte - 6 ELSE byte
        kept == IF o = "getlabels" THEN num \in 1..12 ELSE num \in 25..60
    IN  IF kept THEN <<Slot(num, LabelOf(r))>> ELSE <<>>

\* C13: every pipe-delimited label response that getlabels or getkeylabels
\* reads either adds its Slot (number and label) to the end of the list, when
\* its slot byte is in range, or is dropped, and no error is raised.
C13_LabelsFiltered ==
    [][(pc = "labels" /\ rd' # rd /\ IsLabelResponse(out')) =>
            /\ raised' = ""
            /\ result' = result \o ExpectedSlots(op, out')]_vars

\* the OKGETLABELS requests among the reports written
LabelRequests == {i \in 1..Len(written) : written[i][5] = OKGETLABELS}

\* C14: a call of getlabels that has ended has written one request and made
\* 12 reads, a call of getkeylabels one request and 36 reads, whatever the
\* reads returned.
C14_OneWriteFixedReads ==
    (op \in {"getlabels", "getkeylabels"} /\ pc \in {"done", "failed"}) =>
        /\ Cardinality(LabelRequests) = 1
        /\ nreads = (IF op = "getlabels" THEN 12 ELSE 36)

-----------------------------------------------------------------------------
(* __init__, _connect and close *)

\* the operations of a session and the transport call each of them makes
\* first: send_message and the callers of send_message write, the others read
WritingOps == {"send_message", "send_large_message", "send_large_message2",
               "send_large_message3", "getlabels", "getkeylabels", "setslot",
               "wipeslot"}
ReadingOps == {"read_bytes", "read_string", "sign", "getpub", "decrypt"}

\* the first report an operation hands to self._hid.write, for sample arguments
FirstReport(o) ==
    CASE o = "send_message" -> send_message(<<65>>, OKSETSLOT, 3, LABEL)
      [] o \in ChunkedOps -> send_message(ChunkPayload(o, 1, 1, <<65, 66>>),
                                          IF o = "send_large_message3"
                                          THEN OKSETPRIV ELSE OKSIGNCHALLENGE,
                                          0, 0)
      [] o = "getlabels" -> send_message(<<>>, OKGETLABELS, 0, 0)
      [] o = "getkeylabels" -> send_message(<<>>, OKGETLABELS, KEY_LABELS_ID, 0)
      [] o = "setslot" -> send_message(<<65>>, OKSETSLOT, setslot_remap(10), LABEL)
      [] o = "wipeslot" -> send_message(<<>>, OKWIPESLOT, wipeslot_remap(10), 0)

\* before OnlyKey(...) is called
InitSession ==
    /\ op = "none" /\ pc = "new"
    /\ payload = <<>> /\ msg = 0 /\ slot_id = 0 /\ message_field = 0
    /\ key_type = 0 /\ chunks = <<>> /\ idx = 0
    /\ written = <<>> /\ raised = ""
    /\ digest = <<>> /\ buttons = <<>> /\ shown = FALSE /\ confirmed = FALSE
    /\ devq = <<>> /\ resp = <<>> /\ out = <<>> /\ rd = 0 /\ nreads = 0
    /\ parts = <<>> /\ attempts = 0
    /\ result = <<>> /\ slotnum = -1
    /\ hid_open = FALSE /\ tries = 0 /\ opens = <<>> /\ connect = FALSE
    /\ slot_number = 0
    /\ inst = "A" /\ selected = [i \in Instances |-> -1]

\* __init__(connect) up to the while loop
Construct ==
    /\ pc = "new"
    /\ \E c \in BOOLEAN :
        /\ connect' = c
        /\ tries' = IF c THEN CONNECT_TRIES ELSE 0
        /\ pc' = IF c THEN "connect" ELSE "idle"
    /\ op' = "__init__"
    /\ UNCHANGED <<written, raised, result, slotnum, hid_open, opens, slot_number,
                   inst, selected>>
    /\ UNCHANGED sendVars /\ UNCHANGED chalVars /\ UNCHANGED readVars

\* one pass of `while tries > 0`: _connect() opens the device and __init__
\* returns, or it raises OnlyKeyUnavailableException and tries is decremented;
\* when the loop ends `raise e` raises the last exception
ConnectAttempt ==
    /\ pc = "connect" /\ tries > 0
    /\ \E outcome \in {"ok", "fails"} :
        /\ opens' = Append(opens, outcome)
        /\ IF outcome = "ok"
           THEN /\ hid_open' = TRUE /\ pc' = "idle"
                /\ UNCHANGED <<tries, raised>>
           ELSE /\ tries' = tries - 1
                /\ pc' = IF tries - 1 > 0 THEN "connect" ELSE "unavailable"
                /\ raised' = IF tries - 1 > 0 THEN raised
                             ELSE "OnlyKeyUnavailableException"
                /\ UNCHANGED hid_open
    /\ UNCHANGED <<op, written, result, slotnum, connect, slot_number, inst,
                   selected>>
    /\ UNCHANGED sendVars /\ UNCHANGED chalVars /\ UNCHANGED readVars

\* close(): self._hid.close(), between two calls
Close ==
    /\ pc \in {"idle", "done"}
    /\ op' = "close" /\ pc' = "idle"
    /\ hid_open' = FALSE
    /\ UNCHANGED <<written, raised, result, slotnum, tries, opens, connect,
                   slot_number, inst, selected>>
    /\ UNCHANGED sendVars /\ UNCHANGED chalVars /\ UNCHANGED readVars

\* send_message and read_string on a session whose handle is open
OpenCall ==
    /\ hid_open
    /\ SendMessageCall \/ ReadStringCall

\* an operation on a session whose handle is not open: no method tests the
\* handle, so the operation runs up to its first self._hid.write or
\* self._hid.read, which the hid module refuses with its own exception
ClosedCall ==
    /\ pc = "idle" /\ ~hid_open
    /\ \E o \in WritingOps \cup ReadingOps :
        /\ op' = o
        /\ written' = IF o \in WritingOps THEN Append(written, FirstReport(o))
                      ELSE written
        /\ rd' = IF o \in ReadingOps THEN 1 - rd ELSE rd
    /\ raised' = "ValueError" /\ pc' = "failed"
    /\ UNCHANGED <<result, slotnum, devq, resp, out, nreads, parts, attempts>>
    /\ UNCHANGED sendVars /\ UNCHANGED chalVars /\ UNCHANGED sessVars

NextSession ==
    \/ Construct
    \/ ConnectAttempt
    \/ Close
    \/ OpenCall
    \/ ClosedCall

SpecSession == InitSession /\ [][NextSession]_vars

\* C15: with connect enabled the constructor calls _connect at most 5 times
\* and never again after a call that succeeded, and it raises
\* OnlyKeyUnavailableException exactly when 5 calls have failed; with connect
\* disabled it never calls _connect.
C15_ConnectRetries ==
    /\ Len(opens) <= 5
    /\ \A i \in 1..(Len(opens) - 1) : opens[i] # "ok"
    /\ ~connect => opens = <<>>
    /\ pc \notin {"new", "connect"} =>
        (raised = "OnlyKeyUnavailableException"
            <=> (Len(opens) = 5 /\ \A i \in 1..5 : opens[i] = "fails"))
    /\ (pc = "connect" /\ connect) => (Len(opens) < 5 /\ ~hid_open)

C15_Witness ==
    /\ pc = "unavailable" /\ raised = "OnlyKeyUnavailableException"
    /\ opens = <<"fails", "fails", "fails", "fails", "fails">> /\ ~hid_open

\* C16: an operation called on a session whose handle is not open (closed, or
\* never connected) ends with an error and hands nothing to self._hid.write
\* and asks nothing of self._hid.read.
C16_ClosedSessionRefuses ==
    [][(pc = "idle" /\ ~hid_open /\ pc' # "idle") =>
            /\ raised' # ""
            /\ written' = written
            /\ rd' = rd]_vars

-----------------------------------------------------------------------------
(* The order of the transport events of sign, getpub and decrypt *)

\* C17: in sign, decrypt and getpub the first request report is written only
\* when the last read before it returned empty and no report that was
\* buffered at the start of the call is left on the transport.
C17_RequestAfterEmptyDrain ==
    [][(op \in {"sign", "decrypt", "getpub"} /\ written = <<>> /\ written' # <<>>) =>
            /\ out = <<>>
            /\ devq = <<>>]_vars

-----------------------------------------------------------------------------
(* The transport events of one chunked send, under SpecSend *)

\* C18: the reports a chunked send has written are, in this order, one report
\* per chunk of the payload in ascending offset, each chunk once, as many as
\* the loop has passed and all of them when the call has returned; the call
\* makes no read.
C18_ChunksInOrder ==
    (op \in ChunkedOps /\ raised = "") =>
        LET full == FullChunk(op)
            n == CeilDiv(Len(payload), full)
            at == MarkerAt(op)
        IN  /\ Len(written) = idx /\ idx <= n
            /\ pc = "done" => Len(written) = n
            /\ \A i \in 1..Len(written) :
                LET lo == (i - 1) * full
                    hi == Min(i * full, Len(payload))
                IN  SubSeq(written[i], at + 1, at + hi - lo)
                        = SubSeq(payload, lo + 1, hi)
            /\ rd = 0 /\ nreads = 0 /\ out = <<>>

C18_Witness ==
    /\ op = "send_large_message3" /\ pc = "done" /\ raised = ""
    /\ Len(payload) = 130 /\ Len(written) = 3
    /\ SubSeq(written[3], 8, 23) = SubSeq(payload, 115, 130)

\* the parts of the answer whose reading is over
PartsRead == IF attempts = 0 THEN Len(parts) - 1 ELSE Len(parts) - 2

\* the reads of parts 2 to 8 are under way or over
Collecting == op \in AssembledOps /\ pc \in {"parts", "check", "done", "failed"}
                                  /\ parts # <<>>

\* C19: once the first part has arrived, sign and getpub read each of the
\* parts 2 to 8 at most 10 times and stop reading a part at its first full
\* 64-byte report, so they make at most 70 further reads: every step taken in
\* the loops is one more read, and the read that uses up the 70 leaves them.
C19_BoundedPartReads ==
    /\ [](Collecting =>
            /\ attempts < 10
            /\ nreads <= 10 * PartsRead + attempts
            /\ nreads <= 70
            /\ attempts > 0 => Len(parts[Len(parts)]) # 64
            /\ pc = "parts" => PartsRead < 7)
    /\ [][(pc = "parts" /\ (rd' # rd \/ pc' # pc)) =>
                /\ nreads' = nreads + 1
                /\ pc' \in {"parts", "check"}
                /\ nreads' = 70 => pc' = "check"]_vars

\* seventy reads: every part from the second on took its ten reads
C19_Witness ==
    /\ op = "getpub" /\ pc = "done" /\ nreads = 70
    /\ Len(parts) = 8 /\ Len(parts[1]) = 64 /\ parts[2] # <<>> /\ parts[8] = <<>>

\* C20 as stated: in sign and decrypt the three digits have been computed and
\* displayed to the operator before the first report of the request is written.
C20_DigitsBeforeRequest ==
    (op \in ConfirmingOps /\ written # <<>>) => (Len(buttons) = 3 /\ shown)

\* C20 as amended: in sign and decrypt the three digits have been computed
\* before the first report of the request is written, and they are displayed
\* only after the last report of the request has been written, before the
\* wait for the operator's input and before any read of the answer.
C20_DigitsAfterRequest ==
    op \in ConfirmingOps =>
        /\ written # <<>> => Len(buttons) = 3
        /\ shown => (idx = Len(chunks) /\ Len(written) = Len(chunks))
        /\ ~shown => (~confirmed /\ pc \notin {"input", "poll", "parts", "check", "done"})
        /\ ~shown => (rd = 0 \/ (rd = 1 /\ pc \in {"request", "chunks", "failed"}))

C20_Witness ==
    /\ op = "sign" /\ pc = "input" /\ shown /\ ~confirmed
    /\ Len(buttons) = 3 /\ Len(chunks) = 2 /\ Len(written) = 2

-----------------------------------------------------------------------------
(* Two OnlyKey instances in one process: slot() and the global slotnum *)

\* the answers of the device in the runs with two instances
TwoAnswers == {Answer(PARTS, 0, 0), Answer(1, 0, 0), <<>>}

InitTwo ==
    /\ op = "none" /\ pc = "idle"
    /\ payload = <<>> /\ msg = 0 /\ slot_id = 0 /\ message_field = 0
    /\ key_type = 0 /\ chunks = <<>> /\ idx = 0
    /\ written = <<>> /\ raised = ""
    /\ digest = <<>> /\ buttons = <<>> /\ shown = FALSE /\ confirmed = FALSE
    /\ devq = <<>> /\ resp \in TwoAnswers
    /\ out = <<>> /\ rd = 0 /\ nreads = 0 /\ parts = <<>> /\ attempts = 0
    /\ result = <<>> /\ slotnum = -1
    /\ Connected

\* slot(slot) called on instance i, between two calls or, from another
\* thread, while a method of the other instance runs: `global slotnum`
SlotOn ==
    /\ \E i \in Instances, s \in OpSlots :
        /\ pc = "idle" \/ i # inst
        /\ slotnum' = s
        /\ selected' = [selected EXCEPT ![i] = s]
    /\ UNCHANGED <<op, pc, written, raised, result, hid_open, tries, opens, connect,
                   slot_number, inst>>
    /\ UNCHANGED sendVars /\ UNCHANGED chalVars /\ UNCHANGED readVars

\* sign(SignatureHash), getpub() or decrypt(ct) is called on instance i
OpCallOn ==
    /\ pc = "idle"
    /\ \E i \in Instances, o \in {"sign", "getpub", "decrypt"}, n \in HashLens :
        /\ inst' = i
        /\ op' = o
        /\ payload' = IF o = "getpub" THEN <<>> ELSE Bytes(1, n)
    /\ pc' = "drain"
    /\ UNCHANGED <<msg, slot_id, message_field, key_type, chunks, idx,
                   written, raised, result, slotnum, hid_open, tries, opens,
                   connect, slot_number, selected>>
    /\ UNCHANGED chalVars /\ UNCHANGED readVars

NextTwo ==
    \/ SlotOn
    \/ OpCallOn
    \/ Drain
    \/ ChallengeAndSend
    \/ OpSendStep
    \/ ShowDigits
    \/ Input
    \/ InputEOF
    \/ GetpubRequest
    \/ Poll
    \/ ReadPart
    \/ Finish
    \/ DeviceSend

SpecTwo == InitTwo /\ [][NextTwo]_vars

\* C21: every request report that sign, decrypt or getpub writes for an
\* instance carries the slot most recently given to slot() on that same
\* instance, whatever slot() calls were made on the other instance.
C21_SlotOfOwnInstance ==
    (op \in {"sign", "decrypt", "getpub"} /\ selected[inst] # -1) =>
        \A k \in 1..Len(written) : written[k][6] = selected[inst]

====
